---- MODULE Spec2Model ----
(***************************************************************************)
(* Model of src/contact_manager.py: the ContactManager store (load, save,  *)
(* add, search, select, modify, delete) and its three field validators.    *)
(*                                                                         *)
(* A Python str is a sequence of one-character strings.  A Contact object  *)
(* is a record with the four attributes and an `id`, the object's          *)
(* identity: Contact defines no __eq__, so list.index and list.remove      *)
(* compare objects by identity.  A reference to a Contact (an element of   *)
(* `results`, the local `contact`) is the id of the object.  Every input() *)
(* call is a program position (pc) at which the next typed line is         *)
(* consumed; `message` is the last text written to the terminal.           *)
(***************************************************************************)
EXTENDS Integers, Sequences, FiniteSets, TLC

VARIABLES contacts, file, pc, first_name, last_name, phone_number, email,
          results, contact, choice, index, query, message, name, name_ok

locals == <<first_name, last_name, phone_number, email,
            results, contact, choice, index, query>>
storevars == <<contacts, file, pc, first_name, last_name, phone_number, email,
               results, contact, choice, index, query, message>>
namevars == <<name, name_ok>>
vars == <<contacts, file, pc, first_name, last_name, phone_number, email,
          results, contact, choice, index, query, message, name, name_ok>>

(***************************************************************************)
(* Bounds                                                                  *)
(***************************************************************************)
MaxContacts == 2
MaxNameLen == 3

(***************************************************************************)
(* Characters and str methods                                              *)
(***************************************************************************)
UpperSeq == <<"A","B","C","D","E","F","G","H","I","J","K","L","M",
              "N","O","P","Q","R","S","T","U","V","W","X","Y","Z">>
LowerSeq == <<"a","b","c","d","e","f","g","h","i","j","k","l","m",
              "n","o","p","q","r","s","t","u","v","w","x","y","z">>
Letters == {UpperSeq[i] : i \in 1..26} \cup {LowerSeq[i] : i \in 1..26}
Digits == {"0","1","2","3","4","5","6","7","8","9"}
\* str.isspace() / regex \s on the ASCII range
Whitespace == {" ", "\t", "\n", "\r", "\f"}
\* regex \w on the ASCII range
WordChars == Letters \cup Digits \cup {"_"}

\* Python None, distinct from every str (a str holds one-character strings)
None == <<"None">>

lower_char(c) ==
    IF \E i \in 1..26 : UpperSeq[i] = c
    THEN LowerSeq[CHOOSE i \in 1..26 : UpperSeq[i] = c]
    ELSE c

RECURSIVE lower(_)
lower(s) == IF s = <<>> THEN <<>> ELSE <<lower_char(Head(s))>> \o lower(Tail(s))

RECURSIVE lstrip(_)
lstrip(s) ==
    IF s = <<>> THEN <<>>
    ELSE IF Head(s) \in Whitespace THEN lstrip(Tail(s)) ELSE s

RECURSIVE rstrip(_)
rstrip(s) ==
    IF s = <<>> THEN <<>>
    ELSE IF s[Len(s)] \in Whitespace THEN rstrip(SubSeq(s, 1, Len(s) - 1)) ELSE s

strip(s) == rstrip(lstrip(s))

\* Python `q in s` for two str
str_in(q, s) ==
    \E i \in 0..(Len(s) - Len(q)) : SubSeq(s, i + 1, i + Len(q)) = q

\* regex `$` after k consumed characters: at the end of the string, or just
\* before a newline that is the last character
AtDollar(s, k) ==
    \/ k = Len(s)
    \/ k = Len(s) - 1 /\ s[Len(s)] = "\n"

(***************************************************************************)
(* Validators                                                              *)
(***************************************************************************)
NameClass == Letters \cup Whitespace

\* re.match(r"^[A-Za-z\s]+$", name)
_is_valid_name(s) ==
    \E k \in 1..Len(s) :
        /\ \A i \in 1..k : s[i] \in NameClass
        /\ AtDollar(s, k)

\* re.match(r"^\+?[0-9]*$", phone)
_is_valid_phone(s) ==
    \E p \in {0, 1} :
        /\ p = 1 => (Len(s) >= 1 /\ s[1] = "+")
        /\ \E k \in p..Len(s) :
              /\ \A i \in (p + 1)..k : s[i] \in Digits
              /\ AtDollar(s, k)

EmailClass == WordChars \cup {".", "-"}

\* re.match(r"^[\w\.-]+@[\w\.-]+\.\w+$", email)
_is_valid_email(s) ==
    \E a \in 2..Len(s) : \E d \in (a + 2)..Len(s) : \E k \in (d + 1)..Len(s) :
        /\ \A i \in 1..(a - 1) : s[i] \in EmailClass
        /\ s[a] = "@"
        /\ \A i \in (a + 1)..(d - 1) : s[i] \in EmailClass
        /\ s[d] = "."
        /\ \A i \in (d + 1)..k : s[i] \in WordChars
        /\ AtDollar(s, k)

(***************************************************************************)
(* Inputs: the lines a user types and the arguments a caller passes        *)
(***************************************************************************)
Jo == <<"J","o">>
Al == <<"A","l">>
Roe == <<"R","o","e">>
R2 == <<"R","2">>
P55 == <<"5","5">>
A1 == <<"A","1">>
JoMail == <<"j","o","@","x",".","i","o">>
BadMail == <<"x">>

FirstNameLines == {Jo, <<" ">> \o Al, <<"J","0">>, <<>>}
LastNameLines == {Roe \o <<" ">>, R2, <<>>}
PhoneLines == {P55, <<"5","x">>}
EmailLines == {JoMail, <<"j","o","@","x">>}
\* add_contact(first_name, last_name, phone_number, email)
AddArgs == { <<None, None, None, None>>,
             <<Jo, Roe, P55, JoMail>>,
             <<Al, R2, A1, BadMail>>,
             <<None, Roe, A1, None>> }
Queries == { <<"A">>, <<"5">>, <<"R">>, <<"J","O">>, <<"z","z">> }
YesNoLines == { <<"y">>, <<" ","Y"," ">>, <<"n">>, <<>> }
IndexLines == { <<"0">>, <<"1">>, <<" ","2">>, <<"3">>, <<"4">>, <<"-","1">>,
                <<"x">>, <<>> }

(***************************************************************************)
(* Contact, persistence                                                    *)
(***************************************************************************)
\* Contact.__init__ for the new object of identity id
Contact(id, fn, ln, ph, em) ==
    [id |-> id, first_name |-> fn, last_name |-> ln, phone_number |-> ph,
     email |-> em]

\* contact.__dict__: the four attributes of the object
__dict__(c) ==
    [first_name |-> c.first_name, last_name |-> c.last_name,
     phone_number |-> c.phone_number, email |-> c.email]

\* the identity of the next object created: objects are created one after
\* the other, so the newest object of the list is its last element
new_id == IF contacts = <<>> THEN 1 ELSE contacts[Len(contacts)].id + 1

\* the Contact object a reference points to
deref(ref) == contacts[CHOOSE i \in 1..Len(contacts) : contacts[i].id = ref]

Absent == [kind |-> "absent", data |-> <<>>]
Corrupt == [kind |-> "corrupt", data |-> <<>>]
\* parseable documents that no save wrote: an object without the key email,
\* an object with a fifth key, and a document that is a number
MissingKey ==
    [kind |-> "json",
     data |-> <<[first_name |-> Jo, last_name |-> Roe, phone_number |-> P55]>>]
ExtraKey ==
    [kind |-> "json",
     data |-> <<[first_name |-> Jo, last_name |-> Roe, phone_number |-> P55,
                 email |-> JoMail, nickname |-> Jo]>>]
NotAList == [kind |-> "json_number", data |-> <<>>]

\* the keyword parameters of Contact.__init__
ContactKeys == {"first_name", "last_name", "phone_number", "email"}

\* [Contact(**data) for data in contacts_data] raises TypeError, which
\* load_contacts does not catch: the document is not iterable, or an object
\* lacks a parameter of Contact.__init__ or has a key that is none
load_raises(f) ==
    \/ f.kind = "json_number"
    \/ /\ f.kind = "json"
       /\ \E i \in 1..Len(f.data) : DOMAIN f.data[i] # ContactKeys

\* the characters json.dump writes as a two-character escape, and the
\* second character of each escape
JsonEscaped == <<"\"", "\\", "\n", "\r", "\t", "\f">>
JsonEscapeLetter == <<"\"", "\\", "n", "r", "t", "f">>

\* the text json.dump writes between the quotes for the str s
RECURSIVE json_dump_str(_)
json_dump_str(s) ==
    IF s = <<>> THEN <<>>
    ELSE (IF \E k \in 1..6 : JsonEscaped[k] = Head(s)
          THEN <<"\\", JsonEscapeLetter[CHOOSE k \in 1..6 :
                                            JsonEscaped[k] = Head(s)]>>
          ELSE <<Head(s)>>) \o json_dump_str(Tail(s))

\* variant: the text between the quotes is taken as it is, escapes included
json_load_str_raw(t) == t

\* the str json.load reads from the text t between two quotes
RECURSIVE json_load_str(_)
json_load_str(t) ==
    IF t = <<>> THEN <<>>
    ELSE IF Head(t) = "\\" /\ Len(t) >= 2
                           /\ \E k \in 1..6 : JsonEscapeLetter[k] = t[2]
    THEN <<JsonEscaped[CHOOSE k \in 1..6 : JsonEscapeLetter[k] = t[2]]>>
         \o json_load_str(Tail(Tail(t)))
    ELSE <<Head(t)>> \o json_load_str(Tail(t))

\* json.dump([contact.__dict__ for contact in self.contacts], file, indent=4):
\* the document is a list of objects, each key with its string text
json_dump(cs) ==
    [kind |-> "json",
     data |-> [i \in 1..Len(cs) |->
                  [first_name |-> json_dump_str(__dict__(cs[i]).first_name),
                   last_name |-> json_dump_str(__dict__(cs[i]).last_name),
                   phone_number |-> json_dump_str(__dict__(cs[i]).phone_number),
                   email |-> json_dump_str(__dict__(cs[i]).email)]]]

\* the value of self.contacts after load_contacts() on the resource f
loaded(f) ==
    IF f.kind = "json" /\ ~load_raises(f)
    THEN [i \in 1..Len(f.data) |->
             Contact(i, json_load_str(f.data[i].first_name),
                     json_load_str(f.data[i].last_name),
                     json_load_str(f.data[i].phone_number),
                     json_load_str(f.data[i].email))]
    ELSE <<>>

\* the text load_contacts() leaves on the terminal
load_message(f) ==
    IF f.kind = "corrupt" THEN "Error reading the contacts file."
    ELSE IF load_raises(f) THEN "TypeError"
    ELSE "none"

\* where control is after load_contacts(): back in the caller, or nowhere
\* when the exception ends the process
load_pc(f) == IF load_raises(f) THEN "uncaught_exception" ELSE "idle"

(***************************************************************************)
(* Pure helpers of ContactManager                                          *)
(***************************************************************************)
\* variant: the duplicate check compares the two names only
_is_duplicate_by_name(fn, ln, ph, em) ==
    \E i \in 1..Len(contacts) :
        /\ contacts[i].first_name = fn
        /\ contacts[i].last_name = ln

_is_duplicate(fn, ln, ph, em) ==
    \E i \in 1..Len(contacts) :
        /\ contacts[i].first_name = fn
        /\ contacts[i].last_name = ln
        /\ contacts[i].phone_number = ph
        /\ contacts[i].email = em

\* the condition of the list comprehension in search_contact, for the
\* already lower-cased query q
search_match(q, c) ==
    \/ str_in(q, lower(c.first_name))
    \/ str_in(q, lower(c.last_name))
    \/ str_in(q, c.phone_number)
    \/ str_in(q, lower(c.email))

RECURSIVE search_from(_, _)
search_from(q, i) ==
    IF i > Len(contacts) THEN <<>>
    ELSE (IF search_match(q, contacts[i]) THEN <<contacts[i].id>> ELSE <<>>)
         \o search_from(q, i + 1)

\* search_contact(query): the list of references to the matching Contacts
search_contact(q) == search_from(lower(q), 1)

\* variant: Contact compares by value, index finds the first equal Contact
list_index_by_value(ref) ==
    CHOOSE i \in 1..Len(contacts) :
        /\ __dict__(contacts[i]) = __dict__(deref(ref))
        /\ \A j \in 1..(i - 1) : __dict__(contacts[j]) # __dict__(deref(ref))

\* self.contacts.index(contact): the first position holding the object
list_index(ref) ==
    CHOOSE i \in 1..Len(contacts) :
        /\ contacts[i].id = ref
        /\ \A j \in 1..(i - 1) : contacts[j].id # ref

\* variant: Contact compares by value, remove drops the first equal Contact
list_remove_by_value(ref) ==
    LET i == CHOOSE k \in 1..Len(contacts) :
                 /\ __dict__(contacts[k]) = __dict__(deref(ref))
                 /\ \A j \in 1..(k - 1) :
                       __dict__(contacts[j]) # __dict__(deref(ref))
    IN SubSeq(contacts, 1, i - 1) \o SubSeq(contacts, i + 1, Len(contacts))

\* self.contacts.remove(contact): drop the first element that is the object
list_remove(ref) ==
    LET i == CHOOSE k \in 1..Len(contacts) :
                 /\ contacts[k].id = ref
                 /\ \A j \in 1..(k - 1) : contacts[j].id # ref
    IN SubSeq(contacts, 1, i - 1) \o SubSeq(contacts, i + 1, Len(contacts))

\* int(s): [ok |-> FALSE] stands for ValueError
int(s) ==
    LET t == strip(s)
        signed == t # <<>> /\ Head(t) \in {"+", "-"}
        d == IF signed THEN Tail(t) ELSE t
        wellformed ==
            /\ d # <<>>
            /\ \A i \in 1..Len(d) : d[i] \in Digits \cup {"_"}
            /\ d[1] # "_" /\ d[Len(d)] # "_"
            /\ \A i \in 1..(Len(d) - 1) : ~(d[i] = "_" /\ d[i + 1] = "_")
        digit(c) == CHOOSE n \in 0..9 :
                        <<"0","1","2","3","4","5","6","7","8","9">>[n + 1] = c
        RECURSIVE value(_, _)
        value(acc, r) ==
            IF r = <<>> THEN acc
            ELSE IF Head(r) = "_" THEN value(acc, Tail(r))
            ELSE value(10 * acc + digit(Head(r)), Tail(r))
    IN IF ~wellformed THEN [ok |-> FALSE, val |-> 0]
       ELSE [ok |-> TRUE,
             val |-> IF signed /\ Head(t) = "-" THEN 0 - value(0, d)
                     ELSE value(0, d)]

\* input().strip().lower() == 'y'
is_yes(line) == lower(strip(line)) = <<"y">>

NoLocals ==
    /\ first_name' = None /\ last_name' = None
    /\ phone_number' = None /\ email' = None
    /\ results' = <<>> /\ contact' = 0 /\ choice' = <<>>
    /\ index' = 0 /\ query' = None

(***************************************************************************)
(* ContactManager.__init__ / load_contacts                                 *)
(***************************************************************************)
Init ==
    /\ file \in {Absent, Corrupt, MissingKey, ExtraKey, NotAList}
    /\ contacts = loaded(file)
    /\ pc = load_pc(file)
    /\ first_name = None /\ last_name = None
    /\ phone_number = None /\ email = None
    /\ results = <<>> /\ contact = 0 /\ choice = <<>>
    /\ index = 0 /\ query = None
    /\ message = load_message(file)
    /\ name = <<>> /\ name_ok = FALSE

\* variant: a failed load rewrites the resource from the empty store
load_contacts_rewriting ==
    /\ pc = "idle"
    /\ contacts' = loaded(file)
    /\ message' = load_message(file)
    /\ file' = IF file.kind = "corrupt" THEN json_dump(<<>>) ELSE file
    /\ UNCHANGED <<pc, locals, namevars>>

\* a ContactManager is constructed again on the same resource
load_contacts ==
    /\ pc = "idle"
    /\ contacts' = loaded(file)
    /\ message' = load_message(file)
    /\ pc' = load_pc(file)
    /\ UNCHANGED <<file, locals, namevars>>

(***************************************************************************)
(* add_contact                                                             *)
(***************************************************************************)
\* variant: the append is not followed by save_contacts()
add_commit_unsaved(fn, ln, ph, em) ==
    /\ contacts' = Append(contacts, Contact(new_id, fn, ln, ph, em))
    /\ file' = file
    /\ pc' = "idle"
    /\ NoLocals
    /\ message' = "Contact added successfully."

\* lines 133-136: append, save, report
add_commit(fn, ln, ph, em) ==
    /\ contacts' = Append(contacts, Contact(new_id, fn, ln, ph, em))
    /\ file' = json_dump(contacts')
    /\ pc' = "idle"
    /\ NoLocals
    /\ message' = "Contact added successfully."

\* lines 120-135 from the first argument that is still None
add_proceed(fn, ln, ph, em) ==
    LET next == IF fn = None THEN "add_first_name"
                ELSE IF ln = None THEN "add_last_name"
                ELSE IF ph = None THEN "add_phone_number"
                ELSE IF em = None THEN "add_email"
                ELSE IF _is_duplicate(fn, ln, ph, em) THEN "add_overwrite"
                ELSE "commit"
    IN IF next = "commit"
       THEN add_commit(fn, ln, ph, em)
       ELSE /\ pc' = next
            /\ first_name' = fn /\ last_name' = ln
            /\ phone_number' = ph /\ email' = em
            /\ message' = next
            /\ UNCHANGED <<contacts, file, results, contact, choice, index, query>>

\* MaxContacts bounds the Contact objects created since the last load
add_contact(args) ==
    /\ pc = "idle"
    /\ new_id <= MaxContacts
    /\ add_proceed(args[1], args[2], args[3], args[4])
    /\ UNCHANGED namevars

\* one iteration of the loop of get_valid_input, for the field being prompted
get_valid_input(line) ==
    LET value == strip(line) IN
    /\ pc \in {"add_first_name", "add_last_name", "add_phone_number", "add_email"}
    /\ line \in (CASE pc = "add_first_name" -> FirstNameLines
                   [] pc = "add_last_name" -> LastNameLines
                   [] pc = "add_phone_number" -> PhoneLines
                   [] pc = "add_email" -> EmailLines)
    /\ CASE pc = "add_first_name" ->
              IF _is_valid_name(value)
              THEN add_proceed(value, last_name, phone_number, email)
              ELSE UNCHANGED storevars
         [] pc = "add_last_name" ->
              IF _is_valid_name(value)
              THEN add_proceed(first_name, value, phone_number, email)
              ELSE UNCHANGED storevars
         [] pc = "add_phone_number" ->
              IF _is_valid_phone(value)
              THEN add_proceed(first_name, last_name, value, email)
              ELSE UNCHANGED storevars
         [] pc = "add_email" ->
              IF _is_valid_email(value)
              THEN add_proceed(first_name, last_name, phone_number, value)
              ELSE UNCHANGED storevars
    /\ UNCHANGED namevars

\* lines 128-131: the answer to "Do you want to add it anyway?"
add_overwrite(line) ==
    /\ pc = "add_overwrite"
    /\ IF is_yes(line)
       THEN add_commit(first_name, last_name, phone_number, email)
       ELSE /\ pc' = "idle"
            /\ NoLocals
            /\ message' = "Contact not added."
            /\ UNCHANGED <<contacts, file>>
    /\ UNCHANGED namevars

(***************************************************************************)
(* search_contact(query) with display=True, display_contacts               *)
(***************************************************************************)
search(q) ==
    /\ pc = "idle"
    /\ message' = IF search_contact(q) = <<>> THEN "No contacts found." ELSE "table"
    /\ UNCHANGED <<contacts, file, pc, locals, namevars>>

display_contacts ==
    /\ pc = "idle"
    /\ message' = IF contacts = <<>>
                  THEN "No contacts available. Please, enter one."
                  ELSE "table"
    /\ UNCHANGED <<contacts, file, pc, locals, namevars>>

(***************************************************************************)
(* _select_contact_from_results                                            *)
(***************************************************************************)
\* lines 228-232 / 350-354: search, then the selection up to its first input()
search_and_select(op, q) ==
    LET res == search_contact(q) IN
    /\ pc = "idle"
    /\ IF res = <<>>
       THEN /\ pc' = "idle"
            /\ NoLocals
            /\ message' = "No contacts found."
       ELSE /\ results' = res
            /\ query' = q
            /\ first_name' = None /\ last_name' = None
            /\ phone_number' = None /\ email' = None
            /\ index' = 0 /\ choice' = <<>>
            /\ IF Len(res) > 1
               THEN /\ pc' = IF op = "modify" THEN "modify_select"
                             ELSE "delete_select"
                    /\ contact' = 0
                    /\ message' = "Enter the index number"
               ELSE /\ pc' = IF op = "modify" THEN "modify_confirm"
                             ELSE "delete_confirm"
                    /\ contact' = res[1]
                    /\ message' = "Are you sure?"
    /\ UNCHANGED <<contacts, file, namevars>>

\* variant: an index out of range is clamped to the nearest listed Contact
_select_contact_clamped(line) ==
    LET n == int(line)
        c == IF n.val - 1 < 0 THEN 0
             ELSE IF n.val - 1 >= Len(results) THEN Len(results) - 1
             ELSE n.val - 1
    IN
    /\ pc \in {"modify_select", "delete_select"}
    /\ IF ~n.ok
       THEN UNCHANGED storevars
       ELSE /\ choice' = <<c>>
            /\ contact' = results[c + 1]
            /\ pc' = IF pc = "modify_select" THEN "modify_confirm"
                     ELSE "delete_confirm"
            /\ message' = "Are you sure?"
            /\ UNCHANGED <<contacts, file, first_name, last_name, phone_number,
                           email, results, index, query>>
    /\ UNCHANGED namevars

\* one iteration of the while loop, lines 316-324
_select_contact_from_results(line) ==
    LET n == int(line) IN
    /\ pc \in {"modify_select", "delete_select"}
    /\ IF ~n.ok
       THEN UNCHANGED storevars
       ELSE /\ choice' = <<n.val - 1>>
            /\ IF 0 <= n.val - 1 /\ n.val - 1 < Len(results)
               THEN /\ contact' = results[(n.val - 1) + 1]
                    /\ pc' = IF pc = "modify_select" THEN "modify_confirm"
                             ELSE "delete_confirm"
                    /\ message' = "Are you sure?"
               ELSE UNCHANGED <<contact, pc, message>>
            /\ UNCHANGED <<contacts, file, first_name, last_name, phone_number,
                           email, results, index, query>>
    /\ UNCHANGED namevars

(***************************************************************************)
(* modify_contact                                                          *)
(***************************************************************************)
modify_contact(q) == search_and_select("modify", q)

\* variant: the modification goes on whatever the answer is
modify_confirm_any(line) ==
    /\ pc = "modify_confirm"
    /\ index' = list_index(contact)
    /\ pc' = "modify_first_name"
    /\ message' = "Enter new first name"
    /\ results' = <<>> /\ query' = None /\ choice' = <<>>
    /\ UNCHANGED <<first_name, last_name, phone_number, email, contact>>
    /\ UNCHANGED <<contacts, file, namevars>>

\* lines 238-243: the answer to "Are you sure you want to modify"; the
\* locals results, query and choice are not read after this point
modify_confirm(line) ==
    /\ pc = "modify_confirm"
    /\ IF is_yes(line)
       THEN /\ index' = list_index(contact)
            /\ pc' = "modify_first_name"
            /\ message' = "Enter new first name"
            /\ results' = <<>> /\ query' = None /\ choice' = <<>>
            /\ UNCHANGED <<first_name, last_name, phone_number, email, contact>>
       ELSE /\ pc' = "idle"
            /\ NoLocals
            /\ message' = "Modification cancelled."
    /\ UNCHANGED <<contacts, file, namevars>>

\* lines 298-304: overwrite the four attributes of self.contacts[index], save
modify_commit(fn, ln, ph, em) ==
    /\ contacts' = [contacts EXCEPT ![index] =
                        [@ EXCEPT !.first_name = fn, !.last_name = ln,
                                  !.phone_number = ph, !.email = em]]
    /\ file' = json_dump(contacts')
    /\ pc' = "idle"
    /\ NoLocals
    /\ message' = "Contact modified successfully."

\* lines 291-296 once the four values are known
modify_check(fn, ln, ph, em) ==
    IF _is_duplicate(fn, ln, ph, em)
    THEN /\ pc' = "modify_overwrite"
         /\ first_name' = fn /\ last_name' = ln
         /\ phone_number' = ph /\ email' = em
         /\ message' = "This contact already exists. Do you want to update it anyway?"
         /\ UNCHANGED <<contacts, file, results, contact, choice, index, query>>
    ELSE modify_commit(fn, ln, ph, em)

\* one call of get_new_value (lines 271-277) for the field being prompted;
\* the recursive call on an invalid value is the same prompt again
get_new_value(line) ==
    LET new_value == strip(line)
        goto(next, fn, ln, ph) ==
            /\ pc' = next
            /\ first_name' = fn /\ last_name' = ln /\ phone_number' = ph
            /\ message' = next
            /\ UNCHANGED <<contacts, file, email, results, contact, choice,
                           index, query>>
    IN
    /\ pc \in {"modify_first_name", "modify_last_name", "modify_phone_number",
               "modify_email"}
    /\ line \in (CASE pc = "modify_first_name" -> FirstNameLines
                   [] pc = "modify_last_name" -> LastNameLines
                   [] pc = "modify_phone_number" -> PhoneLines \cup {<<>>}
                   [] pc = "modify_email" -> EmailLines \cup {<<" ">>})
    /\ CASE pc = "modify_first_name" ->
              IF new_value = <<>>
              THEN goto("modify_last_name", deref(contact).first_name,
                        last_name, phone_number)
              ELSE IF ~_is_valid_name(new_value) THEN UNCHANGED storevars
              ELSE goto("modify_last_name", new_value, last_name, phone_number)
         [] pc = "modify_last_name" ->
              IF new_value = <<>>
              THEN goto("modify_phone_number", first_name,
                        deref(contact).last_name, phone_number)
              ELSE IF ~_is_valid_name(new_value) THEN UNCHANGED storevars
              ELSE goto("modify_phone_number", first_name, new_value,
                        phone_number)
         [] pc = "modify_phone_number" ->
              IF new_value = <<>>
              THEN goto("modify_email", first_name, last_name,
                        deref(contact).phone_number)
              ELSE IF ~_is_valid_phone(new_value) THEN UNCHANGED storevars
              ELSE goto("modify_email", first_name, last_name, new_value)
         [] pc = "modify_email" ->
              IF new_value = <<>>
              THEN modify_check(first_name, last_name, phone_number,
                                deref(contact).email)
              ELSE IF ~_is_valid_email(new_value) THEN UNCHANGED storevars
              ELSE modify_check(first_name, last_name, phone_number, new_value)
    /\ UNCHANGED namevars

\* lines 293-296: the answer to "Do you want to update it anyway?"
modify_overwrite(line) ==
    /\ pc = "modify_overwrite"
    /\ IF is_yes(line)
       THEN modify_commit(first_name, last_name, phone_number, email)
       ELSE /\ pc' = "idle"
            /\ NoLocals
            /\ message' = "Modification cancelled due to duplicate contact."
            /\ UNCHANGED <<contacts, file>>
    /\ UNCHANGED namevars

(***************************************************************************)
(* delete_contact                                                          *)
(***************************************************************************)
delete_contact(q) == search_and_select("delete", q)

\* lines 360-366: the answer to "Are you sure you want to delete"
delete_confirm(line) ==
    /\ pc = "delete_confirm"
    /\ IF is_yes(line)
       THEN /\ contacts' = list_remove(contact)
            /\ file' = json_dump(contacts')
            /\ message' = "Contact deleted successfully."
       ELSE /\ message' = "Contact deletion cancelled."
            /\ UNCHANGED <<contacts, file>>
    /\ pc' = "idle"
    /\ NoLocals
    /\ UNCHANGED namevars

(***************************************************************************)
(* Specification of the store                                              *)
(***************************************************************************)
Next ==
    \/ load_contacts
    \/ \E args \in AddArgs : add_contact(args)
    \/ \E line \in FirstNameLines \cup LastNameLines \cup PhoneLines
                   \cup EmailLines : get_valid_input(line)
    \/ \E line \in YesNoLines : add_overwrite(line)
    \/ \E q \in Queries : search(q)
    \/ display_contacts
    \/ \E q \in Queries : modify_contact(q)
    \/ \E line \in IndexLines : _select_contact_from_results(line)
    \/ \E line \in YesNoLines : modify_confirm(line)
    \/ \E line \in FirstNameLines \cup LastNameLines \cup PhoneLines
                   \cup EmailLines \cup {<<>>, <<" ">>} : get_new_value(line)
    \/ \E line \in YesNoLines : modify_overwrite(line)
    \/ \E q \in Queries : delete_contact(q)
    \/ \E line \in YesNoLines : delete_confirm(line)

Spec == Init /\ [][Next]_vars

(***************************************************************************)
(* Specification of the name validator applied to typed strings            *)
(***************************************************************************)
NameChars == {"a", "Z", " ", "\t", "\n", "1"}

InitName ==
    /\ file = Absent
    /\ contacts = <<>>
    /\ pc = "idle"
    /\ first_name = None /\ last_name = None
    /\ phone_number = None /\ email = None
    /\ results = <<>> /\ contact = 0 /\ choice = <<>>
    /\ index = 0 /\ query = None
    /\ message = "none"
    /\ name = <<>> /\ name_ok = _is_valid_name(<<>>)

\* one more character is typed and the validator is applied to the string
validate_name(c) ==
    /\ Len(name) < MaxNameLen
    /\ name' = Append(name, c)
    /\ name_ok' = _is_valid_name(name')
    /\ UNCHANGED storevars

NextName == \E c \in NameChars : validate_name(c)

SpecName == InitName /\ [][NextName]_vars

(***************************************************************************)
(* Specification of save and load on typed names: a name the validator     *)
(* accepts is added as both names of a Contact, which saves the store; the *)
(* manager is constructed again on the saved resource                      *)
(***************************************************************************)
add_typed_name ==
    /\ name_ok
    /\ add_contact(<<name, name, P55, JoMail>>)

NextRoundTrip ==
    \/ \E c \in NameChars : validate_name(c)
    \/ add_typed_name
    \/ \E line \in YesNoLines : add_overwrite(line)
    \/ load_contacts

SpecRoundTrip == InitName /\ [][NextRoundTrip]_vars

(***************************************************************************)
(* Properties                                                              *)
(***************************************************************************)
Committed == {"Contact added successfully.", "Contact modified successfully.",
              "Contact deleted successfully."}

ModifyLines == FirstNameLines \cup LastNameLines \cup PhoneLines
               \cup EmailLines \cup {<<>>, <<" ">>}

\* the Records of a sequence of Contact objects: their fields, in order
Records(cs) ==
    [i \in 1..Len(cs) |->
        [first_name |-> cs[i].first_name, last_name |-> cs[i].last_name,
         phone_number |-> cs[i].phone_number, email |-> cs[i].email]]

\* the Records a parse of the persisted resource f yields, in order
Persisted(f) == Records(loaded(f))

\* the Record with the given four fields
Record(fn, ln, ph, em) ==
    [first_name |-> fn, last_name |-> ln, phone_number |-> ph, email |-> em]

\* the position in the store of the referenced Contact object
Position(ref) == CHOOSE i \in 1..Len(contacts) : contacts[i].id = ref

\* the value a modify prompt yields for the typed line: the current value
\* for a blank line, else the typed value without surrounding whitespace
Resolved(line, current) == IF strip(line) = <<>> THEN current ELSE strip(line)

\* the sequence cs without its element at position i
Without(cs, i) == SubSeq(cs, 1, i - 1) \o SubSeq(cs, i + 1, Len(cs))

\* C1: every Record in the store passes the four validators, whichever way
\* add_contact obtained the field values (arguments or prompts).
C1_StoredRecordsValid ==
    \A i \in 1..Len(contacts) :
        /\ _is_valid_name(contacts[i].first_name)
        /\ _is_valid_name(contacts[i].last_name)
        /\ _is_valid_phone(contacts[i].phone_number)
        /\ _is_valid_email(contacts[i].email)

\* C2: a step that changes the Records of the in-memory sequence ends its
\* operation (the manager is idle again) with the persisted resource holding
\* exactly the new sequence, same Records in the same order.
C2_MutationPersisted ==
    [][Records(contacts') # Records(contacts) =>
          /\ pc' = "idle"
          /\ message' \in Committed
          /\ file'.kind = "json"
          /\ Persisted(file') = Records(contacts')]_vars

C2_Witness ==
    /\ pc = "idle"
    /\ message = "Contact deleted successfully."
    /\ Len(contacts) = 1
    /\ file.kind = "json" /\ Persisted(file) = Records(contacts)

\* C3: while the resource is not parseable the store loaded from it is
\* empty, a load leaves the resource as it is, and the resource changes only
\* in a step that commits an add, modify or delete, which writes the store.
C3_CorruptKeptUntilSave ==
    /\ [](file.kind = "corrupt" => contacts = <<>>)
    /\ [][file.kind = "corrupt" =>
             /\ message' = "Error reading the contacts file." =>
                   (contacts' = <<>> /\ file' = file)
             /\ file' # file =>
                   /\ message' \in Committed
                   /\ file'.kind = "json"
                   /\ Persisted(file') = Records(contacts')
             /\ message' \notin Committed => file' = file]_vars

C3_Witness ==
    /\ file.kind = "corrupt"
    /\ contacts = <<>>
    /\ pc = "idle"
    /\ message = "No contacts found."

\* C4: a declined override of a duplicate add leaves store and resource
\* unchanged; the override is asked only for a candidate equal in all four
\* fields to a stored Record, and a candidate that is appended without the
\* question differs from every stored Record.
C4_DuplicatePolicy ==
    /\ [][\A line \in YesNoLines :
             (pc = "add_overwrite" /\ add_overwrite(line)
              /\ lower(strip(line)) # <<"y">>) =>
                (contacts' = contacts /\ file' = file)]_vars
    /\ [][(pc # "add_overwrite" /\ pc' = "add_overwrite") =>
             \E i \in 1..Len(contacts) :
                 Records(contacts)[i] = Record(first_name', last_name',
                                               phone_number', email')]_vars
    /\ [][(pc # "add_overwrite" /\ message' = "Contact added successfully.") =>
             /\ Len(contacts') = Len(contacts) + 1
             /\ SubSeq(contacts', 1, Len(contacts)) = contacts
             /\ \A i \in 1..Len(contacts) :
                   Records(contacts)[i] #
                       Records(contacts')[Len(contacts')]]_vars

C4_Witness ==
    /\ pc = "idle"
    /\ message = "Contact not added."
    /\ Len(contacts) = 1
    /\ Persisted(file) = Records(contacts)

\* the Contacts the claim C5 expects for the query q, from position i on
RECURSIVE C5_Expected(_, _)
C5_Expected(q, i) ==
    IF i > Len(contacts) THEN <<>>
    ELSE (IF \/ str_in(lower(q), lower(contacts[i].first_name))
             \/ str_in(lower(q), lower(contacts[i].last_name))
             \/ str_in(lower(q), lower(contacts[i].email))
             \/ str_in(q, contacts[i].phone_number)
          THEN <<contacts[i].id>> ELSE <<>>) \o C5_Expected(q, i + 1)

\* C5: the result of a search is the sub-sequence, in store order, of the
\* Records having the query case-insensitively in first_name, last_name or
\* email, or the exact-case query in the raw phone_number.
C5_SearchResult ==
    query # None => results = C5_Expected(query, 1)

\* C6: a committed modify replaces only the Record at the selected
\* position; each field is the typed value when one was typed (and then it
\* passes its validator) and the previous value on a blank line; the length
\* and all other Records stay as they were.
C6_ModifyResult ==
    /\ [][\A line \in ModifyLines :
             (pc = "modify_first_name" /\ pc' # pc /\ get_new_value(line)) =>
                /\ first_name' = Resolved(line, deref(contact).first_name)
                /\ strip(line) # <<>> => _is_valid_name(first_name')]_vars
    /\ [][\A line \in ModifyLines :
             (pc = "modify_last_name" /\ pc' # pc /\ get_new_value(line)) =>
                /\ last_name' = Resolved(line, deref(contact).last_name)
                /\ first_name' = first_name
                /\ strip(line) # <<>> => _is_valid_name(last_name')]_vars
    /\ [][\A line \in ModifyLines :
             (pc = "modify_phone_number" /\ pc' # pc /\ get_new_value(line)) =>
                /\ phone_number' = Resolved(line, deref(contact).phone_number)
                /\ first_name' = first_name /\ last_name' = last_name
                /\ strip(line) # <<>> => _is_valid_phone(phone_number')]_vars
    /\ [][\A line \in ModifyLines :
             (pc = "modify_email" /\ pc' = "modify_overwrite"
              /\ get_new_value(line)) =>
                /\ email' = Resolved(line, deref(contact).email)
                /\ first_name' = first_name /\ last_name' = last_name
                /\ phone_number' = phone_number
                /\ strip(line) # <<>> => _is_valid_email(email')]_vars
    /\ [][\A line \in ModifyLines :
             (pc = "modify_email" /\ pc' = "idle" /\ get_new_value(line)) =>
                /\ contacts' = [contacts EXCEPT ![Position(contact)] =
                      Contact(contact, first_name, last_name, phone_number,
                              Resolved(line, deref(contact).email))]
                /\ strip(line) # <<>> =>
                      _is_valid_email(contacts'[Position(contact)].email)]_vars
    /\ [][(pc = "modify_overwrite"
           /\ message' = "Contact modified successfully.") =>
             contacts' = [contacts EXCEPT ![Position(contact)] =
                 Contact(contact, first_name, last_name, phone_number,
                         email)]]_vars
    /\ [][(pc \in {"modify_first_name", "modify_last_name",
                   "modify_phone_number", "modify_email", "modify_overwrite"}
           /\ pc' # "idle") =>
             (contact' = contact /\ contacts' = contacts)]_vars

C6_Witness ==
    /\ pc = "idle"
    /\ message = "Contact modified successfully."
    /\ Len(contacts) = 2
    /\ contacts[1].first_name = contacts[2].first_name
    /\ contacts[1].last_name # contacts[2].last_name
    /\ contacts[1].phone_number = contacts[2].phone_number
    /\ contacts[1].email # contacts[2].email

\* C7: once the candidate of a modify is assembled, the override is asked
\* if and only if a Record at another position than the target's equals the
\* candidate in all four fields.
C7_ModifyDuplicateAgainstRest ==
    /\ [][(pc = "modify_email" /\ pc' = "modify_overwrite") =>
             \E j \in 1..Len(contacts) :
                 /\ j # Position(contact)
                 /\ Records(contacts)[j] = Record(first_name', last_name',
                                                  phone_number', email')]_vars
    /\ [][(pc = "modify_email" /\ pc' = "idle") =>
             \A j \in 1..Len(contacts) :
                 j # Position(contact) =>
                    Records(contacts)[j] #
                        Records(contacts')[Position(contact)]]_vars

\* C8: a confirmed delete removes the element at the selected Record's
\* position and keeps every other Record in its relative order.
C8_DeleteSelected ==
    /\ [][\A line \in YesNoLines :
             (pc = "delete_confirm" /\ delete_confirm(line)
              /\ lower(strip(line)) = <<"y">>) =>
                /\ contacts' = Without(contacts, Position(contact))
                /\ Len(contacts') = Len(contacts) - 1
                /\ message' = "Contact deleted successfully."]_vars
    /\ [][(pc = "delete_confirm"
           /\ message' # "Contact deleted successfully.") =>
             contacts' = contacts]_vars

C8_Witness ==
    /\ pc = "idle"
    /\ message = "Contact deleted successfully."
    /\ Len(contacts) = 1
    /\ contacts[1].id = 1
    /\ Persisted(file) = Records(contacts)

\* the 1-based index typed on the line, 0 - 1 when the line is not a number
C9_Entered(line) ==
    IF /\ strip(line) # <<>>
       /\ \A i \in 1..Len(strip(line)) : strip(line)[i] \in Digits
    THEN int(line).val
    ELSE 0 - 1

C10_NameValidator ==
    name_ok <=> (name # <<>> /\ \A i \in 1..Len(name) :
                                   name[i] \in Letters \cup {" "})

\* C11: loading the resource a save wrote yields the saved sequence, equal in
\* length, order and the four fields of every Record, and a save after that
\* load writes the content the resource already holds.
C11_SaveLoadRoundTrip ==
    /\ [][message' \in Committed => file' = json_dump(contacts')]_vars
    /\ [][(pc = "idle" /\ file = json_dump(contacts) /\ load_contacts) =>
             /\ Len(contacts') = Len(contacts)
             /\ \A i \in 1..Len(contacts) :
                   /\ contacts'[i].first_name = contacts[i].first_name
                   /\ contacts'[i].last_name = contacts[i].last_name
                   /\ contacts'[i].phone_number = contacts[i].phone_number
                   /\ contacts'[i].email = contacts[i].email
             /\ json_dump(contacts') = file]_vars

C11_Witness ==
    /\ pc = "idle"
    /\ message = "none"
    /\ Len(contacts) = 2
    /\ contacts[1].first_name = <<"a">>
    /\ contacts[2].first_name = <<"a", "\t", "Z">>
    /\ file.kind = "json"
    /\ file.data[2].first_name = <<"a", "\\", "t", "Z">>

ModifyPcs == {"modify_select", "modify_confirm", "modify_first_name",
              "modify_last_name", "modify_phone_number", "modify_email",
              "modify_overwrite"}
DeletePcs == {"delete_select", "delete_confirm"}

\* C12: in a run of modify_contact or delete_contact the store and the
\* resource change only in the committing step, which is reached only after
\* a non-empty search result, a selected Record and the answer yes to the
\* confirmation; no match, a declined confirmation and a declined duplicate
\* override leave store and resource as they were.
C12_CommitOnlyWhenConfirmed ==
    /\ [][(pc \in ModifyPcs \cup DeletePcs
           /\ (contacts' # contacts \/ file' # file)) =>
             /\ pc \in {"modify_email", "modify_overwrite", "delete_confirm"}
             /\ pc' = "idle"
             /\ message' \in {"Contact modified successfully.",
                              "Contact deleted successfully."}]_vars
    /\ [][(pc' \in {"modify_confirm", "delete_confirm"} /\ pc # pc') =>
             /\ pc \in {"idle", "modify_select", "delete_select"}
             /\ results' # <<>>
             /\ \E k \in 1..Len(results') : results'[k] = contact'
             /\ \E i \in 1..Len(contacts) : contacts[i].id = contact'
             /\ contacts' = contacts]_vars
    /\ [][(pc' \in {"modify_select", "delete_select"} /\ pc # pc') =>
             (pc = "idle" /\ Len(results') > 1)]_vars
    /\ [][(pc' = "modify_first_name" /\ pc # pc') =>
             (pc = "modify_confirm" /\ contact' = contact)]_vars
    /\ [][\A line \in YesNoLines :
             (pc = "modify_confirm" /\ modify_confirm(line)
              /\ lower(strip(line)) # <<"y">>) =>
                (pc' = "idle" /\ message' = "Modification cancelled.")]_vars
    /\ [][(pc' = "modify_last_name" /\ pc # pc') =>
             (pc = "modify_first_name" /\ contact' = contact)]_vars
    /\ [][(pc' = "modify_phone_number" /\ pc # pc') =>
             (pc = "modify_last_name" /\ contact' = contact)]_vars
    /\ [][(pc' = "modify_email" /\ pc # pc') =>
             (pc = "modify_phone_number" /\ contact' = contact)]_vars
    /\ [][(pc' = "modify_overwrite" /\ pc # pc') =>
             (pc = "modify_email" /\ contact' = contact)]_vars
    /\ [][\A line \in YesNoLines :
             (pc = "modify_overwrite" /\ modify_overwrite(line)
              /\ lower(strip(line)) # <<"y">>) =>
                (contacts' = contacts /\ file' = file /\ pc' = "idle")]_vars
    /\ [][\A line \in YesNoLines :
             (pc = "delete_confirm" /\ delete_confirm(line)
              /\ lower(strip(line)) # <<"y">>) =>
                (contacts' = contacts /\ file' = file /\ pc' = "idle")]_vars
    /\ [][(message' \in {"No contacts found.", "Modification cancelled.",
                         "Modification cancelled due to duplicate contact.",
                         "Contact deletion cancelled."}) =>
             (contacts' = contacts /\ file' = file)]_vars

C12_Witness ==
    /\ pc = "idle"
    /\ message = "Modification cancelled due to duplicate contact."
    /\ Len(contacts) = 2
    /\ Records(contacts)[1] # Records(contacts)[2]
    /\ Persisted(file) = Records(contacts)

\* C13: whatever the persisted resource holds, load_contacts returns control
\* to its caller with a store that is a sequence of Contacts having the four
\* fields; it never ends in an unhandled error.
C13_LoadNeverFatal ==
    /\ pc # "uncaught_exception"
    /\ \A i \in 1..Len(contacts) : DOMAIN contacts[i] = ContactKeys \cup {"id"}

====
